---- MODULE Spec2Model ----
(***************************************************************************)
(* Model of the lss_observations lookup functions and parametric models.   *)
(*                                                                         *)
(* One caller invokes the public entry points one call at a time.  Every   *)
(* lookup function is split at the places where its code can raise or      *)
(* touches the dataset: call, stage 1 (sample dispatch), stage 2 (bin      *)
(* dispatch), file read, conversion/return.  The caller holds at most one  *)
(* model object and holds none while a lookup function runs: the lookup    *)
(* functions never touch a model object.                                   *)
(*                                                                         *)
(* Number representation                                                   *)
(*   - stellar masses are represented by their log10 in micro-dex, so      *)
(*     np.log10(10**9.5) is 9500000;                                       *)
(*   - magnitudes and redshifts are in tenths resp. hundredths;            *)
(*   - table values are fixed point with denominator Scale, so that a      *)
(*     multiplication by littleh = 0.7 is exact.                           *)
(***************************************************************************)
EXTENDS Integers, Sequences, FiniteSets, TLC

VARIABLES pc, fn, arg, loc, data, reads, ret, err, disk, obj, out, threads

vars == <<pc, fn, arg, loc, data, reads, ret, err, disk, obj, out, threads>>

(***************************************************************************)
(* Bounds of the model (not program constants).                            *)
(***************************************************************************)
\* the packaged dataset is one of MaxSeed+1 tables, each with a symmetric
\* and a non-symmetric variant of its matrix blocks
MaxSeed == 1
\* raw table entries are 1..MaxRaw
MaxRaw == 11

(***************************************************************************)
(* Fixed point.                                                            *)
(***************************************************************************)
Scale == 100

Times(a, b) == (a * b) \div Scale

Abs(x) == IF x < 0 THEN -x ELSE x

\* a Python float x is <<x>>, None is <<>>
None == <<>>

F(x) == <<x>>

\* Python list slice s[a:b] (0-based, b exclusive)
Slice(s, a, b) == [k \in 1..(b - a) |-> s[a + k]]

(***************************************************************************)
(* Outcome of a call.                                                      *)
(***************************************************************************)
NoError == [type |-> "", msg |-> ""]

ValueError(m) == [type |-> "ValueError", msg |-> m]

IndexError == [type |-> "IndexError", msg |-> "list index out of range"]

NoResult == [has |-> FALSE, count |-> 0, measurement |-> <<>>, sigma |-> <<>>, cov |-> <<>>,
             phi |-> <<>>, val |-> <<>>]

NoLocals == [filenames |-> <<>>, filename |-> "", wp_filename |-> "",
             cov_filename |-> "", filepath |-> "", column |-> 0,
             threshold |-> FALSE, mask |-> <<>>, Mbin |-> <<>>, i |-> 0,
             mstar |-> <<>>]

NoData == [rp |-> <<>>, wp |-> <<>>, sigma |-> <<>>, cov |-> <<>>]

NoArg == [sample |-> "", method |-> "", lo |-> None, hi |-> None]

(***************************************************************************)
(* The packaged dataset.  The files are not part of the sources; a table   *)
(* is determined by (disk.seed, disk.sym), the path and the cell position. *)
(***************************************************************************)
PathNo(path) == Len(path)

\* cell (r, c) of the table at path, r and c counted from 0
Cell(path, r, c) ==
    Scale * (1 + ((disk.seed + PathNo(path) + 5 * r + 7 * c) % MaxRaw))

\* cell (i, j) of a matrix block: equal to cell (j, i) when disk.sym
BlockCell(path, i, j) ==
    IF disk.sym
    THEN Scale * (1 + ((disk.seed + PathNo(path)
                          + 5 * (IF i <= j THEN i ELSE j)
                          + 7 * (IF i <= j THEN j ELSE i)) % MaxRaw))
    ELSE Scale * (1 + ((disk.seed + PathNo(path) + 5 * i + 7 * j) % MaxRaw))

\* column c of the data rows first..last-1 of a table
Column(path, c, first, last) ==
    [k \in 1..(last - first) |-> Cell(path, first + k - 1, c)]

(***************************************************************************)
(* hearin_2014_wp                                                          *)
(***************************************************************************)
\* littleh = 0.7
littleh == 70

\* log10(littleh**2.0) in micro-dex
Log10_littleh2 == -309804

\* np.log10(np.array([10.0**9.8, 10.0**10.2, 10.0**10.6]) * littleh**2.0)
mstar_thresholds ==
    <<9800000 + Log10_littleh2, 10200000 + Log10_littleh2, 10600000 + Log10_littleh2>>

\* np.isclose(a, b, atol=0.01): |a - b| <= atol + rtol * |b|, rtol = 1e-5
atol == 10000

\* (rtol * |b| is Abs(b) / 100000; a and b are whole micro-dex)
isclose(a, b) == Abs(a - b) <= atol + (Abs(b) \div 100000)

\* number of rows of the Hearin tables
hearin_M == 15

HearinSamples == {"all", "red", "blue", "green"}

HearinOffsets == {-10200, -10050, -10000, 0, 10000, 10050, 10200}

HearinThresholds ==
    {mstar_thresholds[k] + d : k \in 1..3, d \in HearinOffsets} \cup {9490000, 8000000}

hearin_call(sample, mstar_thresh) ==
    /\ pc = "idle" /\ obj = <<>>
    /\ pc' = "stage1"
    /\ fn' = "hearin_2014_wp"
    /\ arg' = [NoArg EXCEPT !.sample = sample, !.lo = F(mstar_thresh)]
    /\ loc' = NoLocals
    /\ data' = NoData
    /\ reads' = <<>>
    /\ ret' = NoResult
    /\ err' = NoError
    /\ UNCHANGED <<disk, obj, out>>
    /\ UNCHANGED threads

hearin_stage1 ==
    /\ pc = "stage1" /\ fn = "hearin_2014_wp"
    /\ IF arg.sample = "all"
       THEN /\ loc' = [loc EXCEPT !.filename = "table_1.dat"]
            /\ pc' = "stage2" /\ UNCHANGED err
       ELSE IF arg.sample = "red"
       THEN /\ loc' = [loc EXCEPT !.filename = "table_3.dat"]
            /\ pc' = "stage2" /\ UNCHANGED err
       ELSE IF arg.sample = "blue"
       THEN /\ loc' = [loc EXCEPT !.filename = "table_2.dat"]
            /\ pc' = "stage2" /\ UNCHANGED err
       ELSE /\ err' = ValueError("sample not recognized.")
            /\ pc' = "raised" /\ UNCHANGED loc
    /\ UNCHANGED <<fn, arg, data, reads, ret, disk, obj, out>>
    /\ UNCHANGED threads

hearin_stage2 ==
    /\ pc = "stage2" /\ fn = "hearin_2014_wp"
    /\ LET mask == [k \in 1..3 |-> isclose(arg.lo[1], mstar_thresholds[k])]
       IN  IF \E k \in 1..3 : mask[k]
           THEN /\ loc' = [loc EXCEPT !.mask = mask,
                               !.column = IF mask[1] THEN 1 ELSE IF mask[2] THEN 3 ELSE 5]
                /\ pc' = "read" /\ UNCHANGED err
           ELSE /\ err' = ValueError("mass threshold not with 0.01 dex of an available threshold.")
                /\ pc' = "raised" /\ UNCHANGED loc
    /\ UNCHANGED <<fn, arg, data, reads, ret, disk, obj, out>>
    /\ UNCHANGED threads

hearin_read ==
    /\ pc = "read" /\ fn = "hearin_2014_wp"
    /\ LET path == "wp_measurements/hearin_2014_data/" \o loc.filename
       IN  /\ reads' = Append(reads, path)
           /\ data' = [NoData EXCEPT
                         !.rp = Column(path, 0, 1, 1 + hearin_M),
                         !.wp = Column(path, loc.column, 1, 1 + hearin_M),
                         !.sigma = Column(path, loc.column + 1, 1, 1 + hearin_M)]
    /\ pc' = "convert"
    /\ UNCHANGED <<fn, arg, loc, ret, err, disk, obj, out>>
    /\ UNCHANGED threads

\* measurement[0] = measurement[0,:]*littleh; measurement[0] = measurement[1,:]*littleh
hearin_rows(rp, wp) ==
    LET m  == <<rp, wp>>
        m1 == [m EXCEPT ![1] = [k \in DOMAIN m[1] |-> Times(m[1][k], littleh)]]
        m2 == [m1 EXCEPT ![1] = [k \in DOMAIN m1[2] |-> Times(m1[2][k], littleh)]]
    IN  m2

hearin_convert ==
    /\ pc = "convert" /\ fn = "hearin_2014_wp"
    /\ ret' = [NoResult EXCEPT
                 !.has = TRUE, !.count = 2,
                 !.measurement = hearin_rows(data.rp, data.wp),
                 !.sigma = [k \in DOMAIN data.sigma |-> Times(data.sigma[k], littleh)]]
    /\ pc' = "returned"
    /\ UNCHANGED <<fn, arg, loc, data, reads, err, disk, obj, out>>
    /\ UNCHANGED threads

(***************************************************************************)
(* campbell_2016_wp                                                        *)
(***************************************************************************)
\* row length of the Campbell arrays
campbell_M == 14

campbell_filenames(method) ==
    IF method = "nearest_neighbor"
    THEN <<"wp_data_nearest_neighbor_all_11.0_11.5_0.npy",
           "wp_data_nearest_neighbor_all_10.0_10.5_0.npy",
           "wp_data_nearest_neighbor_all_10.5_11.0_0.npy",
           "wp_data_nearest_neighbor_all_9.5_10.0_0.npy",
           "wp_data_nearest_neighbor_blue_11.0_11.5_0.npy",
           "wp_data_nearest_neighbor_blue_10.0_10.5_0.npy",
           "wp_data_nearest_neighbor_blue_10.5_11.0_0.npy",
           "wp_data_nearest_neighbor_blue_9.5_10.0_0.npy",
           "wp_data_nearest_neighbor_red_11.0_11.5_0.npy",
           "wp_data_nearest_neighbor_red_10.0_10.5_0.npy",
           "wp_data_nearest_neighbor_red_10.5_11.0_0.npy",
           "wp_data_nearest_neighbor_red_9.5_10.0_0.npy">>
    ELSE IF method = "theta_weights"
    THEN <<"wp_data_no_collisions_all_11.0_11.5_0.npy",
           "wp_data_no_collisions_all_10.0_10.5_0.npy",
           "wp_data_no_collisions_all_10.5_11.0_0.npy",
           "wp_data_no_collisions_all_9.5_10.0_0.npy",
           "wp_data_no_collisions_blue_11.0_11.5_0.npy",
           "wp_data_no_collisions_blue_10.0_10.5_0.npy",
           "wp_data_no_collisions_blue_10.5_11.0_0.npy",
           "wp_data_no_collisions_blue_9.5_10.0_0.npy",
           "wp_data_no_collisions_red_11.0_11.5_0.npy",
           "wp_data_no_collisions_red_10.0_10.5_0.npy",
           "wp_data_no_collisions_red_10.5_11.0_0.npy",
           "wp_data_no_collisions_red_9.5_10.0_0.npy">>
    ELSE <<>>

\* filenames[:4], filenames[4:8], filenames[8:]
campbell_sample_slice(filenames, sample) ==
    IF sample = "all" THEN Slice(filenames, 0, 4)
    ELSE IF sample = "blue" THEN Slice(filenames, 4, 8)
    ELSE IF sample = "red" THEN Slice(filenames, 8, Len(filenames))
    ELSE <<>>

\* 0-based index into filenames chosen for mass_bin, -1 when no branch matches
campbell_bin_index(mass_bin) ==
    IF mass_bin = <<F(9500000), F(10000000)>> THEN 3
    ELSE IF mass_bin = <<F(10000000), F(10500000)>> THEN 2
    ELSE IF mass_bin = <<F(10500000), F(11000000)>> THEN 1
    ELSE IF mass_bin = <<F(11000000), F(11500000)>> THEN 0
    ELSE -1

CampbellMethods == {"nearest_neighbor", "theta_weights", "none"}

CampbellSamples == {"all", "red", "blue", "green"}

\* log10 of the bin edges offered to the mass-binned lookups
MassEdges == {8000000, 8500000, 9000000, 9500000, 10000000, 10500000, 11000000, 11500000}

MassBins == {b \in MassEdges \X MassEdges : b[2] - b[1] \in {500000, 1000000}}

campbell_call(min_mstar, max_mstar, method, sample) ==
    /\ pc = "idle" /\ obj = <<>>
    /\ pc' = "stage1"
    /\ fn' = "campbell_2016_wp"
    /\ arg' = [sample |-> sample, method |-> method, lo |-> F(min_mstar), hi |-> F(max_mstar)]
    /\ loc' = NoLocals
    /\ data' = NoData
    /\ reads' = <<>>
    /\ ret' = NoResult
    /\ err' = NoError
    /\ UNCHANGED <<disk, obj, out>>
    /\ UNCHANGED threads

campbell_stage1 ==
    /\ pc = "stage1" /\ fn = "campbell_2016_wp"
    /\ IF arg.method \notin {"nearest_neighbor", "theta_weights"}
       THEN /\ err' = ValueError("method not recognized.")
            /\ pc' = "raised" /\ UNCHANGED loc
       ELSE IF arg.sample \notin {"all", "blue", "red"}
       THEN /\ err' = ValueError("sample not recognized.")
            /\ pc' = "raised"
            /\ loc' = [loc EXCEPT !.filenames = campbell_filenames(arg.method)]
       ELSE /\ loc' = [loc EXCEPT !.filenames =
                          campbell_sample_slice(campbell_filenames(arg.method), arg.sample)]
            /\ pc' = "stage2" /\ UNCHANGED err
    /\ UNCHANGED <<fn, arg, data, reads, ret, disk, obj, out>>
    /\ UNCHANGED threads

campbell_stage2 ==
    /\ pc = "stage2" /\ fn = "campbell_2016_wp"
    /\ LET mass_bin == <<arg.lo, arg.hi>>
           k == campbell_bin_index(mass_bin)
       IN  IF k < 0
           THEN /\ err' = ValueError("requested mass bin not available.")
                /\ pc' = "raised"
                /\ loc' = [loc EXCEPT !.Mbin = mass_bin]
           ELSE /\ loc' = [loc EXCEPT !.Mbin = mass_bin, !.filename = loc.filenames[k + 1]]
                /\ pc' = "read" /\ UNCHANGED err
    /\ UNCHANGED <<fn, arg, data, reads, ret, disk, obj, out>>
    /\ UNCHANGED threads

campbell_read ==
    /\ pc = "read" /\ fn = "campbell_2016_wp"
    /\ LET path == "wp_measurements/campbell_2016_data/" \o loc.filename
       IN  /\ reads' = Append(reads, path)
           /\ data' = [NoData EXCEPT
                         !.rp = [k \in 1..campbell_M |-> Cell(path, 0, k - 1)],
                         !.wp = [k \in 1..campbell_M |-> Cell(path, 1, k - 1)]]
    /\ pc' = "convert"
    /\ UNCHANGED <<fn, arg, loc, ret, err, disk, obj, out>>
    /\ UNCHANGED threads

\* measurement = np.vstack((rp,wp)); return measurement
campbell_result(rp, wp) ==
    [NoResult EXCEPT !.has = TRUE, !.count = 1, !.measurement = <<rp, wp>>]

campbell_return ==
    /\ pc = "convert" /\ fn = "campbell_2016_wp"
    /\ ret' = campbell_result(data.rp, data.wp)
    /\ pc' = "returned"
    /\ UNCHANGED <<fn, arg, loc, data, reads, err, disk, obj, out>>
    /\ UNCHANGED threads


(***************************************************************************)
(* yang_2012_wp                                                            *)
(***************************************************************************)
\* ascii.read(..., data_start=1, data_end = 15)
yang_wp_start == 1

yang_wp_end == 15

\* ascii.read(..., data_start=15, data_end = 29)
yang_cov_start == 15

yang_cov_end == 29

\* number of columns of a Yang table
yang_ncols == 14

\* the xiNN.dat layout: a correlation block follows the 14 measurement rows
YangCell(path, r, c) ==
    IF r >= 15 THEN BlockCell(path, r - 15, c) ELSE Cell(path, r, c)

yang_filenames(sample) ==
    IF sample = "Volume1"
    THEN <<"xi01.dat", "xi02.dat", "xi03.dat", "xi04.dat", "xi05.dat">>
    ELSE IF sample = "Volume2"
    THEN <<"xi06.dat", "xi07.dat", "xi08.dat", "xi09.dat", "xi10.dat">>
    ELSE IF sample = "Mass-limit"
    THEN <<"xi11.dat", "xi12.dat", "xi13.dat", "xi14.dat", "xi15.dat">>
    ELSE <<>>

\* yang_bin_index with the final `else: raise` lost: an unmatched bin falls
\* through to the first file
yang_bin_index_no_else(mass_bin) ==
    IF mass_bin = <<F(9000000), F(9500000)>> THEN 0
    ELSE IF mass_bin = <<F(9500000), F(10000000)>> THEN 1
    ELSE IF mass_bin = <<F(10000000), F(10500000)>> THEN 2
    ELSE IF mass_bin = <<F(10500000), F(11000000)>> THEN 3
    ELSE IF mass_bin = <<F(11000000), F(11500000)>> THEN 4
    ELSE 0

\* 0-based index into filenames chosen for mass_bin, -1 when no branch matches
yang_bin_index(mass_bin) ==
    IF mass_bin = <<F(9000000), F(9500000)>> THEN 0
    ELSE IF mass_bin = <<F(9500000), F(10000000)>> THEN 1
    ELSE IF mass_bin = <<F(10000000), F(10500000)>> THEN 2
    ELSE IF mass_bin = <<F(10500000), F(11000000)>> THEN 3
    ELSE IF mass_bin = <<F(11000000), F(11500000)>> THEN 4
    ELSE -1

\* yang_cov_array reading one row too few (data_end off by one)
yang_cov_array_short(path, data_start, data_end) ==
    [p \in (0..(yang_ncols - 1)) \X (0..(data_end - data_start - 2)) |->
        YangCell(path, data_start + p[2], p[1])]

\* cov = np.array([cov_data[c] for c in cov_data.columns]):
\* entry [a, b] is column a, row b of the rows data_start..data_end-1
yang_cov_array(path, data_start, data_end) ==
    [p \in (0..(yang_ncols - 1)) \X (0..(data_end - data_start - 1)) |->
        YangCell(path, data_start + p[2], p[1])]

\* for j in range(0,N): cov[i,j] = wp[i]*wp[j]*cov[i,j]   (iterations j..N-1)
RECURSIVE yang_scale_row(_, _, _, _, _)
yang_scale_row(cov, wp, N, i, j) ==
    IF j >= N THEN cov
    ELSE yang_scale_row(
             [cov EXCEPT ![<<i, j>>] = Times(Times(wp[i + 1], wp[j + 1]), cov[<<i, j>>])],
             wp, N, i, j + 1)

YangSamples == {"Volume1", "Volume2", "Mass-limit", "Volume3"}

yang_call(min_mstar, max_mstar, sample) ==
    /\ pc = "idle" /\ obj = <<>>
    /\ pc' = "stage1"
    /\ fn' = "yang_2012_wp"
    /\ arg' = [NoArg EXCEPT !.sample = sample, !.lo = F(min_mstar), !.hi = F(max_mstar)]
    /\ loc' = NoLocals
    /\ data' = NoData
    /\ reads' = <<>>
    /\ ret' = NoResult
    /\ err' = NoError
    /\ UNCHANGED <<disk, obj, out>>
    /\ UNCHANGED threads

yang_stage1 ==
    /\ pc = "stage1" /\ fn = "yang_2012_wp"
    /\ IF arg.sample \in {"Volume1", "Volume2", "Mass-limit"}
       THEN /\ loc' = [loc EXCEPT !.filenames = yang_filenames(arg.sample)]
            /\ pc' = "stage2" /\ UNCHANGED err
       ELSE /\ err' = ValueError("sample not recognized.")
            /\ pc' = "raised" /\ UNCHANGED loc
    /\ UNCHANGED <<fn, arg, data, reads, ret, disk, obj, out>>
    /\ UNCHANGED threads

yang_stage2 ==
    /\ pc = "stage2" /\ fn = "yang_2012_wp"
    /\ LET mass_bin == <<arg.lo, arg.hi>>
           k == yang_bin_index(mass_bin)
       IN  IF k < 0
           THEN /\ err' = ValueError("requested mass bin not available.")
                /\ pc' = "raised"
                /\ loc' = [loc EXCEPT !.Mbin = mass_bin]
           ELSE /\ loc' = [loc EXCEPT !.Mbin = mass_bin, !.filename = loc.filenames[k + 1]]
                /\ pc' = "read" /\ UNCHANGED err
    /\ UNCHANGED <<fn, arg, data, reads, ret, disk, obj, out>>
    /\ UNCHANGED threads

yang_read ==
    /\ pc = "read" /\ fn = "yang_2012_wp"
    /\ LET path == "wp_measurements/yang_2012_data/" \o loc.filename
       IN  /\ reads' = reads \o <<path, path>>
           /\ data' = [rp |-> [k \in 1..(yang_wp_end - yang_wp_start) |->
                                  YangCell(path, yang_wp_start + k - 1, 0)],
                       wp |-> [k \in 1..(yang_wp_end - yang_wp_start) |->
                                  YangCell(path, yang_wp_start + k - 1, 1)],
                       sigma |-> [k \in 1..(yang_wp_end - yang_wp_start) |->
                                  YangCell(path, yang_wp_start + k - 1, 2)],
                       cov |-> yang_cov_array(path, yang_cov_start, yang_cov_end)]
    /\ pc' = "convert"
    /\ UNCHANGED <<fn, arg, loc, ret, err, disk, obj, out>>
    /\ UNCHANGED threads

\* one iteration of `for i in range(0,N)`: the whole inner loop over j
yang_scale ==
    /\ pc = "convert" /\ fn = "yang_2012_wp"
    /\ loc.i < Len(data.wp)
    /\ LET N == Len(data.wp)
       IN  IF \E j \in 0..(N - 1) : <<loc.i, j>> \notin DOMAIN data.cov
           THEN /\ err' = IndexError
                /\ pc' = "raised" /\ UNCHANGED <<data, loc>>
           ELSE /\ data' = [data EXCEPT !.cov = yang_scale_row(data.cov, data.wp, N, loc.i, 0)]
                /\ loc' = [loc EXCEPT !.i = loc.i + 1]
                /\ UNCHANGED <<pc, err>>
    /\ UNCHANGED <<fn, arg, reads, ret, disk, obj, out>>
    /\ UNCHANGED threads

\* cov = np.matrix(cov); return measurement, cov
yang_return ==
    /\ pc = "convert" /\ fn = "yang_2012_wp"
    /\ loc.i >= Len(data.wp)
    /\ ret' = [NoResult EXCEPT
                 !.has = TRUE, !.count = 2,
                 !.measurement = <<data.rp, data.wp>>,
                 !.cov = data.cov]
    /\ pc' = "returned"
    /\ UNCHANGED <<fn, arg, loc, data, reads, err, disk, obj, out>>
    /\ UNCHANGED threads

(***************************************************************************)
(* zehavi_2011_wp                                                          *)
(***************************************************************************)
\* number of rows of the Zehavi tables
zehavi_M == 13

\* lines 55-63: threshold is set in the `if` branch only, and the statement
\* after the if/else sets it to False in both cases
zehavi_threshold(Mr_min) ==
    LET in_branch == (Mr_min = None)
        after == FALSE
    IN  after

\* Mbin = (None,Mr_max) or (float(Mr_min),float(Mr_max))
zehavi_Mbin(Mr_min, Mr_max) == <<Mr_min, Mr_max>>

\* lines 66-107: <<directory, cov_filenames, wp_filename>>, <<>> when no branch matches
zehavi_group(sample, threshold) ==
    IF sample = "all" /\ ~threshold
    THEN <<"table7/",
           <<"wp_covar_23.0_22.0.dat", "wp_covar_22.0_21.0.dat", "wp_covar_21.0_20.0.dat",
             "wp_covar_20.0_19.0.dat", "wp_covar_19.0_18.0.dat", "wp_covar_18.0_17.0.dat">>,
           "table7.dat">>
    ELSE IF sample = "all" /\ threshold
    THEN <<"table8/",
           <<"wp_covar_22.0.dat", "wp_covar_21.5.dat", "wp_covar_21.0.dat",
             "wp_covar_20.5.dat", "wp_covar_20.0.dat", "wp_covar_19.5.dat",
             "wp_covar_19.0.dat", "wp_covar_18.5.dat", "wp_covar_18.0.dat">>,
           "table8.dat">>
    ELSE IF sample = "blue" /\ ~threshold
    THEN <<"table9/",
           <<"wp_covar_23.0_22.0_mblue.dat", "wp_covar_22.0_21.0_mblue.dat",
             "wp_covar_21.0_20.0_mblue.dat", "wp_covar_20.0_19.0_mblue.dat",
             "wp_covar_19.0_18.0_mblue.dat", "wp_covar_18.0_17.0_mblue.dat">>,
           "table9.dat">>
    ELSE IF sample = "red" /\ ~threshold
    THEN <<"table10/",
           <<"wp_covar_23.0_22.0_mred.dat", "wp_covar_22.0_21.0_mred.dat",
             "wp_covar_21.0_20.0_mred.dat", "wp_covar_20.0_19.0_mred.dat",
             "wp_covar_19.0_18.0_mred.dat", "wp_covar_18.0_17.0_mred.dat">>,
           "table10.dat">>
    ELSE <<>>

\* lines 109-156: <<0-based index into cov_filenames, wp_col>>, <<>> when no branch matches
zehavi_bin(Mbin) ==
    IF Mbin = <<F(-230), F(-220)>> THEN <<0, 1>>
    ELSE IF Mbin = <<F(-220), F(-210)>> THEN <<1, 3>>
    ELSE IF Mbin = <<F(-210), F(-200)>> THEN <<2, 5>>
    ELSE IF Mbin = <<F(-200), F(-190)>> THEN <<3, 7>>
    ELSE IF Mbin = <<F(-190), F(-180)>> THEN <<4, 9>>
    ELSE IF Mbin = <<F(-180), F(-170)>> THEN <<5, 11>>
    ELSE IF Mbin = <<None, F(-220)>> THEN <<0, 1>>
    ELSE IF Mbin = <<None, F(-215)>> THEN <<1, 3>>
    ELSE IF Mbin = <<None, F(-210)>> THEN <<2, 5>>
    ELSE IF Mbin = <<None, F(-205)>> THEN <<3, 7>>
    ELSE IF Mbin = <<None, F(-200)>> THEN <<4, 9>>
    ELSE IF Mbin = <<None, F(-195)>> THEN <<5, 11>>
    ELSE IF Mbin = <<None, F(-190)>> THEN <<6, 13>>
    ELSE IF Mbin = <<None, F(-185)>> THEN <<7, 15>>
    ELSE IF Mbin = <<None, F(-180)>> THEN <<8, 17>>
    ELSE <<>>

\* token k of a covariance file: the matrix written row by row
ZehaviToken(path, k) == BlockCell(path, k \div zehavi_M, k % zehavi_M)

\* variant: the fill with a stride of N + 1 tokens per row
zehavi_cov_stride(path, N) ==
    [p \in (0..(N - 1)) \X (0..(N - 1)) |-> ZehaviToken(path, p[1] * (N + 1) + p[2])]

\* cov[i,j] = float(cov_data[int(i*N+j)])
zehavi_cov(path, N) ==
    [p \in (0..(N - 1)) \X (0..(N - 1)) |-> ZehaviToken(path, p[1] * N + p[2])]

ZehaviSamples == {"all", "red", "blue", "green"}

ZehaviMin == {None} \cup {F(m) : m \in {-230, -220, -210, -200, -190, -180}}

ZehaviMax == {-220, -215, -210, -205, -200, -195, -190, -185, -180, -170, -160}

zehavi_call(Mr_min, Mr_max, sample) ==
    /\ pc = "idle" /\ obj = <<>>
    /\ pc' = "stage0"
    /\ fn' = "zehavi_2011_wp"
    /\ arg' = [NoArg EXCEPT !.sample = sample, !.lo = Mr_min, !.hi = F(Mr_max)]
    /\ loc' = [NoLocals EXCEPT !.filepath = "wp_measurements/zehavi_2011_data/"]
    /\ data' = NoData
    /\ reads' = <<>>
    /\ ret' = NoResult
    /\ err' = NoError
    /\ UNCHANGED <<disk, obj, out>>
    /\ UNCHANGED threads

zehavi_mode ==
    /\ pc = "stage0" /\ fn = "zehavi_2011_wp"
    /\ loc' = [loc EXCEPT !.threshold = zehavi_threshold(arg.lo),
                          !.Mbin = zehavi_Mbin(arg.lo, arg.hi)]
    /\ pc' = "stage1"
    /\ UNCHANGED <<fn, arg, data, reads, ret, err, disk, obj, out>>
    /\ UNCHANGED threads

zehavi_stage1 ==
    /\ pc = "stage1" /\ fn = "zehavi_2011_wp"
    /\ LET g == zehavi_group(arg.sample, loc.threshold)
       IN  IF g = <<>>
           THEN /\ err' = ValueError("sample and/or threshold combination not available.")
                /\ pc' = "raised" /\ UNCHANGED loc
           ELSE /\ loc' = [loc EXCEPT !.filepath = loc.filepath \o g[1],
                                      !.filenames = g[2],
                                      !.wp_filename = g[3]]
                /\ pc' = "stage2" /\ UNCHANGED err
    /\ UNCHANGED <<fn, arg, data, reads, ret, disk, obj, out>>
    /\ UNCHANGED threads

zehavi_stage2 ==
    /\ pc = "stage2" /\ fn = "zehavi_2011_wp"
    /\ LET b == zehavi_bin(loc.Mbin)
       IN  IF b = <<>>
           THEN /\ err' = ValueError("sample bin is not available")
                /\ pc' = "raised" /\ UNCHANGED loc
           ELSE IF b[1] >= Len(loc.filenames)
           THEN /\ err' = IndexError
                /\ pc' = "raised" /\ UNCHANGED loc
           ELSE /\ loc' = [loc EXCEPT !.cov_filename = loc.filenames[b[1] + 1],
                                      !.column = b[2]]
                /\ pc' = "read" /\ UNCHANGED err
    /\ UNCHANGED <<fn, arg, data, reads, ret, disk, obj, out>>
    /\ UNCHANGED threads

zehavi_read ==
    /\ pc = "read" /\ fn = "zehavi_2011_wp"
    /\ LET wp_path == loc.filepath \o loc.wp_filename
           cov_path == loc.filepath \o loc.cov_filename
       IN  /\ reads' = reads \o <<wp_path, cov_path>>
           /\ data' = [NoData EXCEPT
                         !.rp = Column(wp_path, 0, 1, 1 + zehavi_M),
                         !.wp = Column(wp_path, loc.column, 1, 1 + zehavi_M),
                         !.cov = zehavi_cov(cov_path, zehavi_M)]
    /\ pc' = "convert"
    /\ UNCHANGED <<fn, arg, loc, ret, err, disk, obj, out>>
    /\ UNCHANGED threads

zehavi_return ==
    /\ pc = "convert" /\ fn = "zehavi_2011_wp"
    /\ ret' = [NoResult EXCEPT
                 !.has = TRUE, !.count = 2,
                 !.measurement = <<data.rp, data.wp>>,
                 !.cov = data.cov]
    /\ pc' = "returned"
    /\ UNCHANGED <<fn, arg, loc, data, reads, err, disk, obj, out>>
    /\ UNCHANGED threads


(***************************************************************************)
(* Tomczak_2014_phi                                                        *)
(*   redshifts, x0 and alpha are in hundredths; phi0 = 10**(log_phi0/100)  *)
(***************************************************************************)
z_bins == <<20, 50, 75, 100, 125, 150, 200, 250, 250, 300>>

phi1_all == <<-254, -255, -256, -272, -278, -305, -380, -454>>

x1_all == <<1078, 1070, 1066, 1054, 1061, 1074, 1069, 1074>>

alpha1_all == <<-98, -39, -37, 30, -12, 4, 103, 162>>

phi2_all == <<-429, -315, -339, -317, -343, -338, -326, -369>>

x2_all == x1_all

alpha2_all == <<-190, -153, -161, -145, -156, -149, -133, -157>>

phi1_sf == <<-267, -297, -281, -298, -304, -337, -430, -495>>

x1_sf == <<1059, 1065, 1056, 1044, 1069, 1059, 1058, 1061>>

alpha1_sf == <<-108, -97, -46, 53, -55, 75, 206, 236>>

phi2_sf == <<-446, -334, -336, -311, -359, -328, -328, -371>>

x2_sf == x1_all

alpha2_sf == <<-200, -158, -161, -144, -162, -147, -138, -167>>

phi1_q == <<-276, -267, -281, -303, -336, -341, -359, -422>>

x1_q == <<1075, 1068, 1063, 1063, 1049, 1077, 1069, 995>>

alpha1_q == <<47, 10, 4, 11, 85, -19, 37, 62>>

phi2_q == <<-521, -429, -440, -480, -372, -391, -695, -451>>

x2_q == x1_all

alpha2_q == <<-197, -169, -151, -157, -54, -18, -307, -251>>

\* Log_Schechter(phi0=..., x0=..., alpha=...): an unevaluated component
Log_Schechter(log_phi0, x0, alpha) ==
    [kind |-> "Log_Schechter", log_phi0 |-> log_phi0, x0 |-> x0, alpha |-> alpha]

\* the loops `for i in range(0,8)`: s[i] = s1 + s2
Tomczak_models(phi1, x1, alpha1, phi2, x2, alpha2) ==
    [i \in 1..8 |-> <<Log_Schechter(phi1[i], x1[i], alpha1[i]),
                      Log_Schechter(phi2[i], x2[i], alpha2[i])>>]

\* np.searchsorted(a, v): the number of entries of the ascending a that are < v
searchsorted(a, v) == Cardinality({k \in 1..Len(a) : a[k] < v})

TomczakTypes == {"all", "star-forming", "quiescent"}

TomczakRedshifts ==
    {10, 20, 30, 50, 60, 75, 90, 100, 110, 125, 140, 150, 175, 200, 225, 250, 275, 300, 350}

\* log10 of the stellar masses passed to the models, in micro-dex
ModelMasses == {9000000, 10000000, 11000000}

\* the attributes of a Tomczak_2014_phi instance after __init__
Tomczak_self(redshift, type) ==
    [class |-> "Tomczak_2014_phi", littleh |-> littleh,
     z |-> redshift, type |-> type,
     s_all |-> Tomczak_models(phi1_all, x1_all, alpha1_all,
                              phi2_all, x2_all, alpha2_all),
     s_sf |-> Tomczak_models(phi1_sf, x1_sf, alpha1_sf,
                             phi2_sf, x2_sf, alpha2_sf),
     s_q |-> Tomczak_models(phi1_q, x1_q, alpha1_q,
                            phi2_q, x2_q, alpha2_q)]


Tomczak_init(redshift, type) ==
    /\ pc = "idle"
    /\ fn' = "Tomczak_2014_phi.__init__"
    /\ arg' = [NoArg EXCEPT !.sample = type, !.lo = F(redshift)]
    /\ obj' = <<Tomczak_self(redshift, type)>>
    /\ loc' = NoLocals
    /\ data' = NoData
    /\ reads' = <<>>
    /\ ret' = NoResult
    /\ err' = NoError
    /\ out' = <<>>
    /\ pc' = "returned"
    /\ UNCHANGED disk
    /\ UNCHANGED threads

\* the value of __call__: the model evaluated at x, divided hdiv times by littleh
Evaluated(model, x, hdiv) == <<[model |-> model, x |-> x, hdiv |-> hdiv]>>

Tomczak_call(mstar) ==
    /\ pc = "idle"
    /\ obj # <<>> /\ obj[1].class = "Tomczak_2014_phi"
    /\ fn' = "Tomczak_2014_phi.__call__"
    /\ arg' = [NoArg EXCEPT !.lo = F(mstar)]
    /\ loc' = [NoLocals EXCEPT !.i = searchsorted(z_bins, obj[1].z)]
    /\ data' = NoData
    /\ reads' = <<>>
    /\ LET self == obj[1]
           \* mstar / self.littleh**2, then np.log10
           x == mstar - Log10_littleh2
           i == searchsorted(z_bins, self.z)
           s == IF self.type = "all" THEN self.s_all
                ELSE IF self.type = "star-forming" THEN self.s_sf
                ELSE self.s_q
       IN  IF self.type \in {"all", "star-forming", "quiescent"}
           THEN IF i >= Len(s)
                THEN /\ err' = IndexError
                     /\ ret' = NoResult
                     /\ pc' = "raised"
                     /\ out' = <<>>
                ELSE /\ ret' = [NoResult EXCEPT !.has = TRUE, !.count = 1,
                                                !.phi = Evaluated(s[i + 1], x, 3)]
                     /\ err' = NoError
                     /\ pc' = "returned"
                     /\ out' = <<>>
           ELSE /\ out' = <<"type not available">>
                /\ ret' = [NoResult EXCEPT !.has = TRUE]
                /\ err' = NoError
                /\ pc' = "returned"
    /\ UNCHANGED <<disk, obj>>
    /\ UNCHANGED threads

(***************************************************************************)
(* Evaluation of Log_Schechter.  A value is positive and is represented by *)
(* its natural logarithm in units of 1e-4; log-masses are in units of 1e-4 *)
(* dex during the evaluation.                                              *)
(***************************************************************************)
\* np.log(10.0) and log(np.log(10.0)) in 1e-4
Ln10 == 23026

LnLn10 == 8340

\* 10**(j/10), 10**(j/100), 10**(j/1000), 10**(j/10000) for j = 0..9, in 1e-4
Pow10Digit1 == <<10000, 12589, 15849, 19953, 25119, 31623, 39811, 50119, 63096, 79433>>

Pow10Digit2 == <<10000, 10233, 10471, 10715, 10965, 11220, 11482, 11749, 12023, 12303>>

Pow10Digit3 == <<10000, 10023, 10046, 10069, 10093, 10116, 10139, 10162, 10186, 10209>>

Pow10Digit4 == <<10000, 10002, 10005, 10007, 10009, 10012, 10014, 10016, 10018, 10021>>

RECURSIVE IntPow10(_)
IntPow10(n) == IF n = 0 THEN 1 ELSE 10 * IntPow10(n - 1)

\* 10.0**u in 1e-4, for u in 1e-4 with -4 <= u < 5
Pow10(u) ==
    LET n == u \div 10000
        f == u % 10000
        m1 == Pow10Digit1[(f \div 1000) + 1]
        m2 == (m1 * Pow10Digit2[((f \div 100) % 10) + 1]) \div 10000
        m3 == (m2 * Pow10Digit3[((f \div 10) % 10) + 1]) \div 10000
        m4 == (m3 * Pow10Digit4[(f % 10) + 1]) \div 10000
    IN  IF n >= 0 THEN m4 * IntPow10(n) ELSE m4 \div IntPow10(-n)

\* a * Ln10 for a in 1e-4, result in 1e-4
TimesLn10(a) == (((a \div 100) * Ln10) \div 100) + (((a % 100) * Ln10) \div 10000)

\* the denominator of the parameters of a component
Den(c) == IF "den" \in DOMAIN c THEN c.den ELSE 100

\* variant: without the factor np.exp(-10.0**(x-x0))
Log_Schechter_eval_noexp(c, x) ==
    LET k == 10000 \div Den(c)
        u == (x \div 100) - c.x0 * k
        onePlusAlpha == 10000 + c.alpha * k
        lnNorm == LnLn10 + TimesLn10(c.log_phi0 * k)
        power == TimesLn10((u * onePlusAlpha) \div 10000)
    IN  lnNorm + power

\* ln of  norm*(10.0**((x-x0)*(1.0+alpha)))*np.exp(-10.0**(x-x0)),
\* norm = np.log(10.0)*phi0, for x in micro-dex
Log_Schechter_eval(c, x) ==
    LET k == 10000 \div Den(c)
        u == (x \div 100) - c.x0 * k
        onePlusAlpha == 10000 + c.alpha * k
        lnNorm == LnLn10 + TimesLn10(c.log_phi0 * k)
        power == TimesLn10((u * onePlusAlpha) \div 10000)
    IN  lnNorm + power - Pow10(u)


(***************************************************************************)
(* LiWhite_2009_phi, Baldry_2011_phi, Yang_2012_phi                        *)
(*   x0, alpha and the interval bounds are in 1e-4,                        *)
(*   phi0 = 10**(log_phi0/10000)                                           *)
(***************************************************************************)
\* Log_Schechter(phi0=..., x0=..., alpha=...) with parameters in 1/den
Log_Schechter_den(den, log_phi0, x0, alpha) ==
    [kind |-> "Log_Schechter", den |-> den, log_phi0 |-> log_phi0, x0 |-> x0, alpha |-> alpha]

\* a bound of an interval: -np.inf, np.inf or a float
NegInf == [inf |-> -1, v |-> 0]

PosInf == [inf |-> 1, v |-> 0]

Fin(v) == [inf |-> 0, v |-> v]

\* variant: the closed interval [x1,x2]
interval_closed(iv, x) ==
    LET le == iv.x2.inf = 1 \/ (iv.x2.inf = 0 /\ x <= iv.x2.v * 100)
        gt == iv.x1.inf = -1 \/ (iv.x1.inf = 0 /\ x >= iv.x1.v * 100)
    IN  IF le /\ gt THEN 1 ELSE 0

\* interval(x1=..., x2=...): 1 if x is in the range (x1,x2] and 0 otherwise;
\* x in micro-dex, the bounds in 1e-4
interval(iv, x) ==
    LET le == iv.x2.inf = 1 \/ (iv.x2.inf = 0 /\ x <= iv.x2.v * 100)
        gt == iv.x1.inf = -1 \/ (iv.x1.inf = 0 /\ x > iv.x1.v * 100)
    IN  IF le /\ gt THEN 1 ELSE 0

\* s1 + s2 + s3 with s_k = Log_Schechter(...)*interval(...), evaluated at x:
\* the terms that are not 0.0, each by its logarithm
Piecewise_eval(s, x) ==
    LET term(k) == IF interval(s[k].interval, x) = 1
                   THEN <<Log_Schechter_eval(s[k].component, x)>>
                   ELSE <<>>
    IN  term(1) \o term(2) \o term(3)

LiWhite_parameters ==
    [min_mstar1 |-> 80000, phi1 |-> -18342, x1 |-> 96124, alpha1 |-> -11309,
     max_mstar1 |-> 93300,
     min_mstar2 |-> 93300, phi2 |-> -18771, x2 |-> 103702, alpha2 |-> -9004,
     max_mstar2 |-> 106700,
     min_mstar3 |-> 106700, phi3 |-> -23565, x3 |-> 107104, alpha3 |-> -19918,
     max_mstar3 |-> 120000]

\* lines 59-64
LiWhite_model(p) ==
    <<[component |-> Log_Schechter_den(10000, p.phi1, p.x1, p.alpha1),
       interval |-> [x1 |-> NegInf, x2 |-> Fin(p.max_mstar1)]],
      [component |-> Log_Schechter_den(10000, p.phi2, p.x2, p.alpha2),
       interval |-> [x1 |-> Fin(p.min_mstar2), x2 |-> Fin(p.max_mstar2)]],
      [component |-> Log_Schechter_den(10000, p.phi3, p.x3, p.alpha3),
       interval |-> [x1 |-> Fin(p.min_mstar3), x2 |-> PosInf]]>>

\* log10 of the stellar masses passed to LiWhite_2009_phi, in micro-dex
LiWhiteMasses ==
    {7000000, 7990000, 8000000, 9000000, 9330000, 9340000, 10000000,
     10670000, 10680000, 11000000, 12000000, 12010000, 13000000}

LiWhite_init ==
    /\ pc = "idle"
    /\ fn' = "LiWhite_2009_phi.__init__"
    /\ arg' = NoArg
    /\ obj' = <<[class |-> "LiWhite_2009_phi", littleh |-> Scale,
                 p |-> LiWhite_parameters,
                 s |-> LiWhite_model(LiWhite_parameters)]>>
    /\ loc' = NoLocals
    /\ data' = NoData
    /\ reads' = <<>>
    /\ ret' = NoResult
    /\ err' = NoError
    /\ out' = <<>>
    /\ pc' = "returned"
    /\ UNCHANGED disk
    /\ UNCHANGED threads

\* mstar = np.log10(mstar); return self.s(mstar)
LiWhite_value(self, mstar) == Evaluated(self.s, mstar, 0)

LiWhite_call(mstar) ==
    /\ pc = "idle"
    /\ obj # <<>> /\ obj[1].class = "LiWhite_2009_phi"
    /\ fn' = "LiWhite_2009_phi.__call__"
    /\ arg' = [NoArg EXCEPT !.lo = F(mstar)]
    /\ loc' = NoLocals
    /\ data' = NoData
    /\ reads' = <<>>
    /\ ret' = [NoResult EXCEPT !.has = TRUE, !.count = 1,
                               !.phi = LiWhite_value(obj[1], mstar),
                               !.val = <<Piecewise_eval(obj[1].s, mstar)>>]
    /\ err' = NoError
    /\ out' = <<>>
    /\ pc' = "returned"
    /\ UNCHANGED <<disk, obj>>
    /\ UNCHANGED threads

\* lines 99-113; the data table of lines 115-151 is not modelled
Baldry_model ==
    LET phi1 == -24023
        x1 == 106600
        alpha1 == -3500
        phi2 == -31024
        x2 == x1
        alpha2 == -14700
    IN  <<Log_Schechter_den(10000, phi1, x1, alpha1),
          Log_Schechter_den(10000, phi2, x2, alpha2)>>

Baldry_init ==
    /\ pc = "idle"
    /\ fn' = "Baldry_2011_phi.__init__"
    /\ arg' = NoArg
    /\ obj' = <<[class |-> "Baldry_2011_phi", littleh |-> littleh, s |-> Baldry_model]>>
    /\ loc' = NoLocals
    /\ data' = NoData
    /\ reads' = <<>>
    /\ ret' = NoResult
    /\ err' = NoError
    /\ out' = <<>>
    /\ pc' = "returned"
    /\ UNCHANGED disk
    /\ UNCHANGED threads

\* variant: no conversion of the density
Baldry_value_unconverted(self, mstar) == Evaluated(self.s, mstar - Log10_littleh2, 0)

\* mstar = mstar / self.littleh**2; mstar = np.log10(mstar);
\* return self.s(mstar) / self.littleh**3
Baldry_value(self, mstar) == Evaluated(self.s, mstar - Log10_littleh2, 3)

Baldry_call(mstar) ==
    /\ pc = "idle"
    /\ obj # <<>> /\ obj[1].class = "Baldry_2011_phi"
    /\ fn' = "Baldry_2011_phi.__call__"
    /\ arg' = [NoArg EXCEPT !.lo = F(mstar)]
    /\ loc' = NoLocals
    /\ data' = NoData
    /\ reads' = <<>>
    /\ ret' = [NoResult EXCEPT !.has = TRUE, !.count = 1,
                               !.phi = Baldry_value(obj[1], mstar)]
    /\ err' = NoError
    /\ out' = <<>>
    /\ pc' = "returned"
    /\ UNCHANGED <<disk, obj>>
    /\ UNCHANGED threads

\* lines 192-200; the data table of lines 203-246 is not modelled
Yang_phi_model == <<Log_Schechter_den(10000, -20776, 106730, -11170)>>

Yang_phi_init ==
    /\ pc = "idle"
    /\ fn' = "Yang_2012_phi.__init__"
    /\ arg' = NoArg
    /\ obj' = <<[class |-> "Yang_2012_phi", littleh |-> Scale, s |-> Yang_phi_model]>>
    /\ loc' = NoLocals
    /\ data' = NoData
    /\ reads' = <<>>
    /\ ret' = NoResult
    /\ err' = NoError
    /\ out' = <<>>
    /\ pc' = "returned"
    /\ UNCHANGED disk
    /\ UNCHANGED threads

\* mstar = np.log10(mstar); return self.s(mstar)
Yang_phi_value(self, mstar) == Evaluated(self.s, mstar, 0)

Yang_phi_call(mstar) ==
    /\ pc = "idle"
    /\ obj # <<>> /\ obj[1].class = "Yang_2012_phi"
    /\ fn' = "Yang_2012_phi.__call__"
    /\ arg' = [NoArg EXCEPT !.lo = F(mstar)]
    /\ loc' = NoLocals
    /\ data' = NoData
    /\ reads' = <<>>
    /\ ret' = [NoResult EXCEPT !.has = TRUE, !.count = 1,
                               !.phi = Yang_phi_value(obj[1], mstar)]
    /\ err' = NoError
    /\ out' = <<>>
    /\ pc' = "returned"
    /\ UNCHANGED <<disk, obj>>
    /\ UNCHANGED threads


(***************************************************************************)
(* Log_Schechter evaluated on an array of two log-masses                   *)
(***************************************************************************)
\* every component the module constructs
Components ==
    {LiWhite_model(LiWhite_parameters)[k].component : k \in 1..3}
    \cup {Baldry_model[k] : k \in 1..2}
    \cup {Yang_phi_model[1]}
    \cup UNION {{Tomczak_models(phi1_all, x1_all, alpha1_all, phi2_all, x2_all, alpha2_all)[i][k],
                 Tomczak_models(phi1_sf, x1_sf, alpha1_sf, phi2_sf, x2_sf, alpha2_sf)[i][k],
                 Tomczak_models(phi1_q, x1_q, alpha1_q, phi2_q, x2_q, alpha2_q)[i][k]}
                : <<i, k>> \in (1..8) \X (1..2)}

\* x0 of a component in micro-dex
X0(c) == c.x0 * (1000000 \div Den(c))

\* alpha of a component in 1e-4
Alpha(c) == c.alpha * (10000 \div Den(c))

\* distances of the evaluation points above x0, in micro-dex
SchechterOffsets == {50000, 100000, 200000, 300000, 500000, 1000000}

\* c(x) for x = np.array([x0 + a, x0 + b])
Log_Schechter_call(c, a, b) ==
    /\ pc = "idle" /\ obj = <<>>
    /\ fn' = "Log_Schechter"
    /\ arg' = [NoArg EXCEPT !.lo = F(X0(c) + a), !.hi = F(X0(c) + b)]
    /\ loc' = NoLocals
    /\ data' = NoData
    /\ reads' = <<>>
    /\ ret' = [NoResult EXCEPT !.has = TRUE, !.count = 1,
                               !.phi = Evaluated(c, <<X0(c) + a, X0(c) + b>>, 0),
                               !.val = <<Log_Schechter_eval(c, X0(c) + a),
                                         Log_Schechter_eval(c, X0(c) + b)>>]
    /\ err' = NoError
    /\ out' = <<>>
    /\ pc' = "returned"
    /\ UNCHANGED <<disk, obj>>
    /\ UNCHANGED threads


(***************************************************************************)
(* Blanton_2003_phi                                                        *)
(*   phi0 in 1e-4, x0 and alpha0 in hundredths                             *)
(***************************************************************************)
\* <<filename, phi0, x0, alpha0>> of the band, <<>> when no branch matches
Blanton_band(band) ==
    IF band = "u" THEN <<"lumfunc-u.sample10ubright15.dat", 305, -1793, -92>>
    ELSE IF band = "g" THEN <<"lumfunc-g.sample10gbright15.dat", 218, -1939, -89>>
    ELSE IF band = "r" THEN <<"lumfunc-r.sample10bbright15.dat", 149, -2044, -105>>
    ELSE IF band = "i" THEN <<"lumfunc-i.sample10ibright15.dat", 147, -2082, -100>>
    ELSE IF band = "z" THEN <<"lumfunc-z.sample10zbright15.dat", 135, -2118, -108>>
    ELSE <<>>

MagSchechter(phi0, M0, alpha) ==
    [kind |-> "MagSchechter", phi0 |-> phi0, x0 |-> M0, alpha |-> alpha]

BlantonBands == {"u", "g", "r", "i", "z", "y"}

\* absolute magnitudes passed to the model, in hundredths
ModelMags == {-2200, -2000, -1800}

Blanton_init(band) ==
    /\ pc = "idle"
    /\ fn' = "Blanton_2003_phi.__init__"
    /\ arg' = [NoArg EXCEPT !.sample = band]
    /\ loc' = NoLocals
    /\ data' = NoData
    /\ ret' = NoResult
    /\ out' = <<>>
    /\ LET b == Blanton_band(band)
       IN  IF b = <<>>
           THEN /\ err' = ValueError("band not recognized.")
                /\ pc' = "raised"
                /\ reads' = <<>>
                /\ UNCHANGED obj
           ELSE /\ reads' = <<"phi_measurements/" \o b[1]>>
                /\ obj' = <<[class |-> "Blanton_2003_phi", littleh |-> Scale,
                             band |-> band, phi0 |-> b[2], x0 |-> b[3], alpha0 |-> b[4],
                             s |-> <<MagSchechter(b[2], b[3], b[4])>>]>>
                /\ err' = NoError
                /\ pc' = "returned"
    /\ UNCHANGED disk
    /\ UNCHANGED threads

Blanton_call(mag) ==
    /\ pc = "idle"
    /\ obj # <<>> /\ obj[1].class = "Blanton_2003_phi"
    /\ fn' = "Blanton_2003_phi.__call__"
    /\ arg' = [NoArg EXCEPT !.lo = F(mag)]
    /\ loc' = NoLocals
    /\ data' = NoData
    /\ reads' = <<>>
    /\ ret' = [NoResult EXCEPT !.has = TRUE, !.count = 1,
                               !.phi = Evaluated(obj[1].s, mag, 0)]
    /\ err' = NoError
    /\ out' = <<>>
    /\ pc' = "returned"
    /\ UNCHANGED <<disk, obj>>
    /\ UNCHANGED threads


(***************************************************************************)
(* The caller takes the result or the exception; the next call can start.  *)
(***************************************************************************)
Return ==
    /\ pc \in {"returned", "raised"}
    /\ pc' = "idle"
    /\ fn' = ""
    /\ arg' = NoArg
    /\ loc' = NoLocals
    /\ data' = NoData
    /\ reads' = <<>>
    /\ ret' = NoResult
    /\ err' = NoError
    /\ out' = <<>>
    /\ UNCHANGED <<disk, obj>>
    /\ UNCHANGED threads

\* the caller drops its model object
Release ==
    /\ pc = "idle"
    /\ obj # <<>>
    /\ obj' = <<>>
    /\ UNCHANGED <<pc, fn, arg, loc, data, reads, ret, err, disk, out>>
    /\ UNCHANGED threads

(***************************************************************************)
(* Calls from several threads.  The variables pc .. out are the frame of   *)
(* the running thread, threads.parked holds the frames of the suspended    *)
(* threads; disk and obj are shared.  The interpreter may switch threads   *)
(* between any two statements, so Tomczak_2014_phi.__call__ is taken one   *)
(* statement at a time here.                                               *)
(***************************************************************************)
Threads == {1, 2}

Frame ==
    [pc |-> pc, fn |-> fn, arg |-> arg, loc |-> loc, data |-> data,
     reads |-> reads, ret |-> ret, err |-> err, out |-> out]

IdleFrame ==
    [pc |-> "idle", fn |-> "", arg |-> NoArg, loc |-> NoLocals, data |-> NoData,
     reads |-> <<>>, ret |-> NoResult, err |-> NoError, out |-> <<>>]

NoThreads == [cur |-> 1, parked |-> [t \in Threads |-> IdleFrame]]

\* the running thread is suspended and thread t resumes
Switch(t) ==
    /\ t # threads.cur
    /\ threads' = [cur |-> t,
                   parked |-> [threads.parked EXCEPT ![threads.cur] = Frame,
                                                      ![t] = IdleFrame]]
    /\ pc' = threads.parked[t].pc
    /\ fn' = threads.parked[t].fn
    /\ arg' = threads.parked[t].arg
    /\ loc' = threads.parked[t].loc
    /\ data' = threads.parked[t].data
    /\ reads' = threads.parked[t].reads
    /\ ret' = threads.parked[t].ret
    /\ err' = threads.parked[t].err
    /\ out' = threads.parked[t].out
    /\ UNCHANGED <<disk, obj>>

\* def __call__(self, mstar)
Tomczak_enter(mstar) ==
    /\ pc = "idle"
    /\ obj # <<>> /\ obj[1].class = "Tomczak_2014_phi"
    /\ fn' = "Tomczak_2014_phi.__call__"
    /\ arg' = [NoArg EXCEPT !.lo = F(mstar)]
    /\ loc' = NoLocals
    /\ data' = NoData
    /\ reads' = <<>>
    /\ ret' = NoResult
    /\ err' = NoError
    /\ out' = <<>>
    /\ pc' = "stage0"
    /\ UNCHANGED <<disk, obj, threads>>

\* mstar = mstar / self.littleh**2; mstar = np.log10(mstar): a new array is
\* bound to the local name, the caller's array is not written
Tomczak_convert ==
    /\ pc = "stage0" /\ fn = "Tomczak_2014_phi.__call__"
    /\ loc' = [loc EXCEPT !.mstar = F(arg.lo[1] - Log10_littleh2)]
    /\ pc' = "stage1"
    /\ UNCHANGED <<fn, arg, data, reads, ret, err, disk, obj, out, threads>>

\* variant: the index is also stored in the instance, self.z = i
Tomczak_search_in_self ==
    /\ pc = "stage1" /\ fn = "Tomczak_2014_phi.__call__"
    /\ loc' = [loc EXCEPT !.i = searchsorted(z_bins, obj[1].z)]
    /\ obj' = <<[obj[1] EXCEPT !.z = searchsorted(z_bins, obj[1].z)]>>
    /\ pc' = "stage2"
    /\ UNCHANGED <<fn, arg, data, reads, ret, err, disk, out, threads>>

\* i = np.searchsorted(self.z_bins,self.z)
Tomczak_search ==
    /\ pc = "stage1" /\ fn = "Tomczak_2014_phi.__call__"
    /\ loc' = [loc EXCEPT !.i = searchsorted(z_bins, obj[1].z)]
    /\ pc' = "stage2"
    /\ UNCHANGED <<fn, arg, data, reads, ret, err, disk, obj, out, threads>>

\* the if/elif chain on self.type
Tomczak_evaluate ==
    /\ pc = "stage2" /\ fn = "Tomczak_2014_phi.__call__"
    /\ LET self == obj[1]
           s == IF self.type = "all" THEN self.s_all
                ELSE IF self.type = "star-forming" THEN self.s_sf
                ELSE self.s_q
       IN  IF self.type \in {"all", "star-forming", "quiescent"}
           THEN IF loc.i >= Len(s)
                THEN /\ err' = IndexError
                     /\ pc' = "raised"
                     /\ UNCHANGED <<ret, out>>
                ELSE /\ ret' = [NoResult EXCEPT !.has = TRUE, !.count = 1,
                                                !.phi = Evaluated(s[loc.i + 1], loc.mstar[1], 3)]
                     /\ pc' = "returned"
                     /\ UNCHANGED <<err, out>>
           ELSE /\ out' = <<"type not available">>
                /\ ret' = [NoResult EXCEPT !.has = TRUE]
                /\ pc' = "returned"
                /\ UNCHANGED err
    /\ UNCHANGED <<fn, arg, loc, data, reads, disk, obj, threads>>

\* the instances shared by the threads
SharedRedshifts == {60, 275}

SharedTypes == {"all", "quiescent", "red"}

\* the selectors passed to yang_2012_wp by the threads
SharedSelectors ==
    {<<11000000, 11500000, "Mass-limit">>, <<9000000, 9500000, "Volume1">>,
     <<9000000, 10000000, "Volume1">>, <<9000000, 9500000, "Volume3">>}


(***************************************************************************)
(* Properties                                                              *)
(***************************************************************************)
Lookups == {"hearin_2014_wp", "campbell_2016_wp", "yang_2012_wp", "zehavi_2011_wp"}

\* C1: hearin_2014_wp returns rp*littleh in the first row, wp*littleh in the
\* second row and sigma*littleh, each converted once from the values read
\* from the file.
C1_HConversionOncePerAxis ==
    (fn = "hearin_2014_wp" /\ pc = "returned") =>
        /\ Len(ret.measurement) = 2
        /\ \A k \in 1..hearin_M :
              /\ ret.measurement[1][k] = Times(data.rp[k], littleh)
              /\ ret.measurement[2][k] = Times(data.wp[k], littleh)
              /\ ret.sigma[k] = Times(data.sigma[k], littleh)

\* the printed form of a bin edge
EdgeLabel(e) ==
    CASE e = 9500000 -> "9.5"
      [] e = 10000000 -> "10.0"
      [] e = 10500000 -> "10.5"
      [] e = 11000000 -> "11.0"
      [] e = 11500000 -> "11.5"
      [] OTHER -> "?"

CampbellBins ==
    {<<9500000, 10000000>>, <<10000000, 10500000>>,
     <<10500000, 11000000>>, <<11000000, 11500000>>}

\* the file whose name carries the method's tag, the sample and the bin
CampbellOwnFile(method, sample, b) ==
    (IF method = "nearest_neighbor" THEN "wp_data_nearest_neighbor_"
                                    ELSE "wp_data_no_collisions_")
      \o sample \o "_" \o EdgeLabel(b[1]) \o "_" \o EdgeLabel(b[2]) \o "_0.npy"

\* the file campbell_2016_wp resolves a selector to
CampbellResolved(method, sample, b) ==
    campbell_sample_slice(campbell_filenames(method), sample)
        [campbell_bin_index(<<F(b[1]), F(b[2])>>) + 1]

CampbellSelectors == {"nearest_neighbor", "theta_weights"} \X {"all", "red", "blue"} \X CampbellBins

\* C2: for every method, sample and enumerated mass bin campbell_2016_wp reads
\* the file named after that sample and that bin, and distinct selectors
\* resolve to distinct files.
C2_ResolvesOwnBinFile ==
    /\ (/\ fn = "campbell_2016_wp"
        /\ <<arg.method, arg.sample, <<arg.lo[1], arg.hi[1]>>>> \in CampbellSelectors
        /\ pc \in {"returned", "raised"})
         => /\ pc = "returned"
            /\ reads = <<"wp_measurements/campbell_2016_data/"
                           \o CampbellOwnFile(arg.method, arg.sample, <<arg.lo[1], arg.hi[1]>>)>>
    /\ \A s1, s2 \in CampbellSelectors :
          s1 # s2 => CampbellResolved(s1[1], s1[2], s1[3]) # CampbellResolved(s2[1], s2[2], s2[3])

ZehaviThresholds == {-220, -215, -210, -205, -200, -195, -190, -185, -180}

\* |Mr_max| as it is printed in the names of the threshold covariance files
MagLabel(m) ==
    CASE m = -220 -> "22.0" [] m = -215 -> "21.5" [] m = -210 -> "21.0"
      [] m = -205 -> "20.5" [] m = -200 -> "20.0" [] m = -195 -> "19.5"
      [] m = -190 -> "19.0" [] m = -185 -> "18.5" [] m = -180 -> "18.0"
      [] OTHER -> "?"

\* C3: zehavi_2011_wp with Mr_min = None and sample 'all' reads, for every
\* enumerated threshold Mr_max, table8/table8.dat and the covariance file
\* wp_covar_<|Mr_max|>.dat of table8, never a file of table7.
C3_ThresholdModeReadsTable8 ==
    (/\ fn = "zehavi_2011_wp"
     /\ arg.lo = None /\ arg.sample = "all" /\ arg.hi[1] \in ZehaviThresholds
     /\ pc \in {"returned", "raised"})
      => /\ pc = "returned"
         /\ reads = <<"wp_measurements/zehavi_2011_data/table8/table8.dat",
                      "wp_measurements/zehavi_2011_data/table8/wp_covar_"
                         \o MagLabel(arg.hi[1]) \o ".dat">>

\* the (sample, mode) combinations Zehavi et al. publish
ZehaviOffered(sample, Mr_min) ==
    \/ sample = "all"
    \/ sample \in {"red", "blue"} /\ Mr_min # None

\* C4: zehavi_2011_wp raises the unsupported-selector error in stage 1, and
\* returns no record, for every combination of sample and mode that is not
\* offered, in particular for a threshold request with sample red or blue.
C4_UnofferedCombinationRaises ==
    (/\ fn = "zehavi_2011_wp"
     /\ ~ZehaviOffered(arg.sample, arg.lo)
     /\ pc \notin {"stage0", "stage1"})
      => /\ pc = "raised"
         /\ err = ValueError("sample and/or threshold combination not available.")
         /\ ~ret.has
         /\ reads = <<>>

YangBins ==
    {<<9000000, 9500000>>, <<9500000, 10000000>>, <<10000000, 10500000>>,
     <<10500000, 11000000>>, <<11000000, 11500000>>}

ZehaviBins ==
    {<<F(-230), F(-220)>>, <<F(-220), F(-210)>>, <<F(-210), F(-200)>>,
     <<F(-200), F(-190)>>, <<F(-190), F(-180)>>, <<F(-180), F(-170)>>}
      \cup {<<None, F(m)>> : m \in ZehaviThresholds}

\* the bin or threshold of the running call is not one the survey enumerates
UnsupportedBin ==
    \/ fn = "yang_2012_wp" /\ <<arg.lo[1], arg.hi[1]>> \notin YangBins
    \/ fn = "campbell_2016_wp" /\ <<arg.lo[1], arg.hi[1]>> \notin CampbellBins
    \/ fn = "zehavi_2011_wp" /\ <<arg.lo, arg.hi>> \notin ZehaviBins
    \/ fn = "hearin_2014_wp"
         /\ \A k \in 1..3 : Abs(arg.lo[1] - mstar_thresholds[k])
                               > atol + (Abs(mstar_thresholds[k]) \div 100000)

\* the sample (and method) of the running call is one the survey enumerates
RecognizedSample ==
    \/ fn = "yang_2012_wp" /\ arg.sample \in {"Volume1", "Volume2", "Mass-limit"}
    \/ fn = "campbell_2016_wp" /\ arg.sample \in {"all", "red", "blue"}
                               /\ arg.method \in {"nearest_neighbor", "theta_weights"}
    \/ fn = "zehavi_2011_wp" /\ arg.sample \in {"all", "red", "blue"}
    \/ fn = "hearin_2014_wp" /\ arg.sample \in {"all", "red", "blue"}

BinMessage ==
    CASE fn = "yang_2012_wp" -> "requested mass bin not available."
      [] fn = "campbell_2016_wp" -> "requested mass bin not available."
      [] fn = "zehavi_2011_wp" -> "sample bin is not available"
      [] OTHER -> "mass threshold not with 0.01 dex of an available threshold."

Boundaries == <<20, 50, 75, 100, 125, 150, 200, 250, 300>>

\* the bracket k in 0..7 with boundary[k] <= z < boundary[k+1]
Bracket(z) == CHOOSE k \in 0..7 : Boundaries[k + 1] <= z /\ z < Boundaries[k + 2]

\* C6: for 0.2 <= z < 3.0 and every type, Tomczak_2014_phi.__call__ evaluates
\* the double-Schechter model of the bracket k with boundary[k] <= z < boundary[k+1].
C6_FloorLookup ==
    (/\ fn = "Tomczak_2014_phi.__call__"
     /\ pc \in {"returned", "raised"}
     /\ obj[1].z >= 20 /\ obj[1].z < 300
     /\ obj[1].type \in TomczakTypes)
      => /\ pc = "returned"
         /\ Len(ret.phi) = 1
         /\ ret.phi[1].model =
               (CASE obj[1].type = "all" -> obj[1].s_all
                  [] obj[1].type = "star-forming" -> obj[1].s_sf
                  [] OTHER -> obj[1].s_q)[Bracket(obj[1].z) + 1]

\* C7: constructing Blanton_2003_phi with a band outside {u,g,r,i,z} or
\* Tomczak_2014_phi with a type outside {all, star-forming, quiescent} raises
\* at construction and yields no model, so no such model is ever evaluated.
C7_UnsupportedCategoryAtConstruction ==
    /\ (fn = "Blanton_2003_phi.__init__" /\ arg.sample \notin {"u", "g", "r", "i", "z"})
          => pc = "raised" /\ err.type = "ValueError"
    /\ (fn = "Tomczak_2014_phi.__init__" /\ arg.sample \notin TomczakTypes)
          => pc = "raised" /\ err.type = "ValueError"
    /\ obj # <<>> =>
          /\ obj[1].class = "Blanton_2003_phi" => obj[1].band \in {"u", "g", "r", "i", "z"}
          /\ obj[1].class = "Tomczak_2014_phi" => obj[1].type \in TomczakTypes

\* C8: every successful call of campbell_2016_wp returns two results, a
\* measurement of shape (2,14) and a covariance matrix of shape (14,14).
C8_CampbellReturnsCovariance ==
    (fn = "campbell_2016_wp" /\ pc = "returned") =>
        /\ ret.count = 2
        /\ Len(ret.measurement) = 2
        /\ Len(ret.measurement[1]) = 14 /\ Len(ret.measurement[2]) = 14
        /\ DOMAIN ret.cov = (0..13) \X (0..13)

\* the entry at row i, column j of the correlation block of a Yang file
YangCorr(path, i, j) == YangCell(path, 15 + i, j)

C10_YangShapes ==
    /\ (/\ fn = "yang_2012_wp"
        /\ arg.sample \in {"Volume1", "Volume2", "Mass-limit"}
        /\ <<arg.lo[1], arg.hi[1]>> \in YangBins)
         => /\ pc # "raised"
            /\ pc = "returned" =>
                  /\ Len(ret.measurement) = 2
                  /\ Len(ret.measurement[1]) = 14 /\ Len(ret.measurement[2]) = 14
                  /\ DOMAIN ret.cov = (0..13) \X (0..13)
    /\ (yang_wp_start..(yang_wp_end - 1)) \cap (yang_cov_start..(yang_cov_end - 1)) = {}
    /\ Cardinality(yang_wp_start..(yang_wp_end - 1)) = 14
    /\ Cardinality(yang_cov_start..(yang_cov_end - 1)) = 14

C10_Witness ==
    /\ fn = "yang_2012_wp" /\ pc = "returned"
    /\ arg.sample = "Mass-limit"
    /\ <<arg.lo[1], arg.hi[1]>> = <<11000000, 11500000>>
    /\ ret.has


\* C13: with a recognized sample, hearin_2014_wp succeeds if and only if
\* log10(mstar_thresh) is within exactly 0.01 dex of one of the three
\* available thresholds, and raises the unsupported-threshold error otherwise.
C13_ToleranceExactly001 ==
    (/\ fn = "hearin_2014_wp"
     /\ arg.sample \in {"all", "red", "blue"}
     /\ pc \in {"returned", "raised"})
      => /\ pc = "returned" <=>
               \E k \in 1..3 : Abs(arg.lo[1] - mstar_thresholds[k]) <= 10000
         /\ pc = "raised" =>
               err = ValueError("mass threshold not with 0.01 dex of an available threshold.")

\* C18: for 0.2 <= z <= 3.0 and a recognized type the index computed by
\* Tomczak_2014_phi.__call__ is in 0..7 and the evaluation does not index
\* past the end of the 8 precomputed models.
C18_IndexInRange ==
    (/\ fn = "Tomczak_2014_phi.__call__"
     /\ obj[1].z >= 20 /\ obj[1].z <= 300
     /\ obj[1].type \in TomczakTypes)
      => /\ loc.i \in 0..7
         /\ pc # "raised"

\* C19: selector resolution of zehavi_2011_wp ends either with a covariance
\* file name and a wp column resolved from the stage 1 group or with the
\* declared ValueError; no other failure occurs.
C19_ResolvedOrValueError ==
    fn = "zehavi_2011_wp" =>
        /\ pc = "raised" => err.type = "ValueError"
        /\ pc \in {"read", "convert", "returned"} =>
              /\ \E k \in 1..Len(loc.filenames) : loc.cov_filename = loc.filenames[k]
              /\ loc.column > 0


\* C11: LiWhite_2009_phi evaluates to 0 at every log-mass below the declared
\* minimum min_mstar1 or above the declared maximum max_mstar3.
C11_ZeroOutsideDeclaredDomain ==
    (/\ fn = "LiWhite_2009_phi.__call__" /\ pc = "returned"
     /\ \/ arg.lo[1] < obj[1].p.min_mstar1 * 100
        \/ arg.lo[1] > obj[1].p.max_mstar3 * 100)
      => ret.val = << <<>> >>

\* the declared sub-domains (min_mstar_k, max_mstar_k] of LiWhite_2009_phi
LiWhiteDomains(p) ==
    <<[lo |-> p.min_mstar1, hi |-> p.max_mstar1],
      [lo |-> p.min_mstar2, hi |-> p.max_mstar2],
      [lo |-> p.min_mstar3, hi |-> p.max_mstar3]>>

\* C12: the three restricted components of LiWhite_2009_phi have disjoint
\* half-open domains (lo, hi] joined at 9.33 and 10.67: at a log-mass in a
\* sub-domain the value is that sub-domain's component alone, and at a shared
\* boundary it is the lower component alone.
C12_DisjointHalfOpenDomains ==
    (/\ fn = "LiWhite_2009_phi.__call__" /\ pc = "returned")
      => LET x == arg.lo[1]
             d == LiWhiteDomains(obj[1].p)
         IN  /\ d[1].hi = d[2].lo /\ d[2].hi = d[3].lo
             /\ d[1].hi = 93300 /\ d[2].hi = 106700
             /\ \A k \in 1..3 :
                   (d[k].lo * 100 < x /\ x <= d[k].hi * 100)
                     => ret.val = << <<Log_Schechter_eval(obj[1].s[k].component, x)>> >>

C12_Witness ==
    /\ fn = "LiWhite_2009_phi.__call__" /\ pc = "returned"
    /\ arg.lo[1] = 9330000
    /\ Len(ret.val[1]) = 1

\* C14: with a symmetric file, the covariance matrix returned by yang_2012_wp
\* and by zehavi_2011_wp is symmetric, cov[i,j] = cov[j,i] for all i, j.
C14_CovarianceSymmetric ==
    (/\ fn \in {"yang_2012_wp", "zehavi_2011_wp"} /\ pc = "returned" /\ disk.sym)
      => \A p \in DOMAIN ret.cov : ret.cov[p] = ret.cov[<<p[2], p[1]>>]

C14_Witness ==
    /\ fn = "zehavi_2011_wp" /\ pc = "returned" /\ disk.sym
    /\ DOMAIN ret.cov = (0..12) \X (0..12)
    /\ ret.cov[<<0, 1>>] # ret.cov[<<1, 1>>]

MassFunctionCalls ==
    {"LiWhite_2009_phi.__call__", "Baldry_2011_phi.__call__",
     "Yang_2012_phi.__call__", "Tomczak_2014_phi.__call__"}

\* C16: a model whose littleh is not 1 evaluates at log10(mstar / littleh^2)
\* and divides the density by littleh^3 once; a model whose littleh is 1
\* evaluates at log10(mstar) and does not divide.  Baldry_2011_phi and
\* Tomczak_2014_phi have littleh = 0.7, LiWhite_2009_phi and Yang_2012_phi 1.
C16_ConversionIffNotUnity ==
    /\ (fn \in MassFunctionCalls /\ pc = "returned" /\ ret.phi # <<>>)
         => LET e == ret.phi[1]
            IN  IF obj[1].littleh # Scale
                THEN e.x = arg.lo[1] - Log10_littleh2 /\ e.hdiv = 3
                ELSE e.x = arg.lo[1] /\ e.hdiv = 0
    /\ obj # <<>> =>
          /\ obj[1].class \in {"Baldry_2011_phi", "Tomczak_2014_phi"} => obj[1].littleh = 70
          /\ obj[1].class \in {"LiWhite_2009_phi", "Yang_2012_phi"} => obj[1].littleh = Scale

C16_Witness ==
    /\ fn = "Baldry_2011_phi.__call__" /\ pc = "returned"
    /\ arg.lo[1] = 10000000
    /\ ret.phi[1].x = 10309804 /\ ret.phi[1].hdiv = 3

\* C20: in every double-Schechter model the second component has the x0 of
\* the first component of the same population and bracket.
C20_SharedCharacteristicScale ==
    obj # <<>> =>
        /\ obj[1].class = "Baldry_2011_phi" => obj[1].s[2].x0 = obj[1].s[1].x0
        /\ obj[1].class = "Tomczak_2014_phi" =>
              \A i \in 1..8 :
                  /\ obj[1].s_all[i][2].x0 = obj[1].s_all[i][1].x0
                  /\ obj[1].s_sf[i][2].x0 = obj[1].s_sf[i][1].x0
                  /\ obj[1].s_q[i][2].x0 = obj[1].s_q[i][1].x0


\* the outcome [pc, ret, err, out] of Tomczak_2014_phi.__call__(mstar) on the
\* instance self when no other call runs
Tomczak_alone(self, mstar) ==
    LET x == mstar - Log10_littleh2
        i == searchsorted(z_bins, self.z)
        s == IF self.type = "all" THEN self.s_all
             ELSE IF self.type = "star-forming" THEN self.s_sf
             ELSE self.s_q
    IN  IF self.type \notin {"all", "star-forming", "quiescent"}
        THEN [pc |-> "returned", ret |-> [NoResult EXCEPT !.has = TRUE],
              err |-> NoError, out |-> <<"type not available">>]
        ELSE IF i >= 8
        THEN [pc |-> "raised", ret |-> NoResult, err |-> IndexError, out |-> <<>>]
        ELSE [pc |-> "returned",
              ret |-> [NoResult EXCEPT !.has = TRUE, !.count = 1,
                                       !.phi = Evaluated(s[i + 1], x, 3)],
              err |-> NoError, out |-> <<>>]

\* the outcome of yang_2012_wp(min_mstar, max_mstar, sample) when no other
\* call runs
yang_alone(lo, hi, sample) ==
    IF sample \notin {"Volume1", "Volume2", "Mass-limit"}
    THEN [pc |-> "raised", ret |-> NoResult,
          err |-> ValueError("sample not recognized."), out |-> <<>>]
    ELSE IF yang_bin_index(<<lo, hi>>) < 0
    THEN [pc |-> "raised", ret |-> NoResult,
          err |-> ValueError("requested mass bin not available."), out |-> <<>>]
    ELSE LET path == "wp_measurements/yang_2012_data/"
                       \o yang_filenames(sample)[yang_bin_index(<<lo, hi>>) + 1]
             rp == [k \in 1..14 |-> YangCell(path, k, 0)]
             wp == [k \in 1..14 |-> YangCell(path, k, 1)]
             cov == [p \in (0..13) \X (0..13) |->
                        Times(Times(wp[p[1] + 1], wp[p[2] + 1]),
                              YangCell(path, 15 + p[2], p[1]))]
         IN  [pc |-> "returned",
              ret |-> [NoResult EXCEPT !.has = TRUE, !.count = 2,
                                       !.measurement = <<rp, wp>>, !.cov = cov],
              err |-> NoError, out |-> <<>>]

\* the frames of all threads
Frames == {Frame} \cup {threads.parked[t] : t \in Threads \ {threads.cur}}

Outcome(f) == [pc |-> f.pc, ret |-> f.ret, err |-> f.err, out |-> f.out]

\* C17: a call writes no shared state, and under any interleaving of the
\* calls of several threads on the same instance or the same lookup function
\* each finished call has the outcome it has when run alone.
C17_InterleavedEqualsAlone ==
    /\ [](\A f \in Frames :
            f.pc \in {"returned", "raised"} =>
                /\ f.fn = "Tomczak_2014_phi.__call__"
                     => Outcome(f) = Tomczak_alone(obj[1], f.arg.lo[1])
                /\ f.fn = "yang_2012_wp"
                     => Outcome(f) = yang_alone(f.arg.lo, f.arg.hi, f.arg.sample))
    /\ [][obj' = obj /\ disk' = disk]_vars

\* a call finished while the call of another thread was suspended between
\* its statements
C17_Witness ==
    /\ pc = "returned"
    /\ \E t \in Threads \ {threads.cur} :
          /\ threads.parked[t].fn = fn
          /\ \/ /\ fn = "Tomczak_2014_phi.__call__"
                /\ threads.parked[t].pc = "stage1"
                /\ ret.phi # <<>>
                /\ threads.parked[t].arg # arg
             \/ /\ fn = "yang_2012_wp"
                /\ threads.parked[t].pc = "convert"
                /\ threads.parked[t].loc.i = 7
                /\ threads.parked[t].arg # arg


Init ==
    /\ pc = "idle"
    /\ fn = ""
    /\ arg = NoArg
    /\ loc = NoLocals
    /\ data = NoData
    /\ reads = <<>>
    /\ ret = NoResult
    /\ err = NoError
    /\ disk \in [seed : 0..MaxSeed, sym : BOOLEAN]
    /\ obj = <<>>
    /\ out = <<>>
    /\ threads = NoThreads

Next ==
    \/ \E s \in HearinSamples, t \in HearinThresholds : hearin_call(s, t)
    \/ hearin_stage1
    \/ hearin_stage2
    \/ hearin_read
    \/ hearin_convert
    \/ \E b \in MassBins, m \in CampbellMethods, s \in CampbellSamples :
          campbell_call(b[1], b[2], m, s)
    \/ campbell_stage1
    \/ campbell_stage2
    \/ campbell_read
    \/ campbell_return
    \/ \E b \in MassBins, s \in YangSamples : yang_call(b[1], b[2], s)
    \/ yang_stage1
    \/ yang_stage2
    \/ yang_read
    \/ yang_scale
    \/ yang_return
    \/ \E lo \in ZehaviMin, hi \in ZehaviMax, s \in ZehaviSamples : zehavi_call(lo, hi, s)
    \/ zehavi_mode
    \/ zehavi_stage1
    \/ zehavi_stage2
    \/ zehavi_read
    \/ zehavi_return
    \/ \E z \in TomczakRedshifts, t \in TomczakTypes \cup {"red"} : Tomczak_init(z, t)
    \/ \E m \in ModelMasses : Tomczak_call(m)
    \/ \E b \in BlantonBands : Blanton_init(b)
    \/ \E m \in ModelMags : Blanton_call(m)
    \/ \E c \in Components : \E a, b \in SchechterOffsets : a < b /\ Log_Schechter_call(c, a, b)
    \/ LiWhite_init
    \/ \E m \in LiWhiteMasses : LiWhite_call(m)
    \/ Baldry_init
    \/ \E m \in ModelMasses : Baldry_call(m)
    \/ Yang_phi_init
    \/ \E m \in ModelMasses : Yang_phi_call(m)
    \/ Return
    \/ Release

Spec == Init /\ [][Next]_vars

\* the threads share either no instance (and call yang_2012_wp) or one
\* Tomczak_2014_phi instance
InitConc ==
    /\ pc = "idle"
    /\ fn = ""
    /\ arg = NoArg
    /\ loc = NoLocals
    /\ data = NoData
    /\ reads = <<>>
    /\ ret = NoResult
    /\ err = NoError
    /\ disk \in [seed : 0..MaxSeed, sym : BOOLEAN]
    /\ obj \in {<<>>} \cup {<<Tomczak_self(z, t)>> : z \in SharedRedshifts, t \in SharedTypes}
    /\ out = <<>>
    /\ threads = NoThreads

NextConc ==
    \/ \E m \in ModelMasses : Tomczak_enter(m)
    \/ Tomczak_convert
    \/ Tomczak_search
    \/ Tomczak_evaluate
    \/ \E b \in SharedSelectors : yang_call(b[1], b[2], b[3])
    \/ yang_stage1
    \/ yang_stage2
    \/ yang_read
    \/ yang_scale
    \/ yang_return
    \/ Return
    \/ \E t \in Threads : Switch(t)

SpecConc == InitConc /\ [][NextConc]_vars

====
